---- MODULE Spec2Model ----
(***************************************************************************)
(* Model of custom-plugin/prepare_plugin_build.py: a sequential script     *)
(* that registers two workspace members in cloned-router/Cargo.toml and    *)
(* propagates RUST_VERSION into rust-toolchain.toml,                       *)
(* apollo-router/config.toml and dockerfiles/diy/dockerfiles/Dockerfile.repo. *)
(*                                                                         *)
(* Text is a sequence of one-character strings.  A text file on disk is    *)
(* the sequence of its characters; the script reads it through Python's    *)
(* text mode (universal newlines) and iterates over its lines.  The        *)
(* manifest is kept as the parsed TOML document: the toml library is an    *)
(* external dependency whose dump/load pair preserves a table of strings.  *)
(* The host is POSIX (the script has a /usr/bin/env shebang), so           *)
(* os.linesep is a single line feed.                                       *)
(***************************************************************************)
EXTENDS Integers, Sequences, FiniteSets

VARIABLES
    environ,       \* os.environ entry RUST_VERSION: [set, value]
    cargo,         \* cloned-router/Cargo.toml: [exists, parses, doc]
    files,         \* the three optional text files: name -> [exists, data]
    perm,          \* file permissions: [unreadable, unwritable], sets of names
    RUST_VERSION,  \* module global read once at start
    pc,            \* position of the script
    fault,         \* the uncaught exception that ended the run, if any
    out,           \* lines printed to standard output by the current run
    written,       \* files the current run has written back, in order
    run,           \* number of the current invocation of the script
    snap           \* file system at the start of each invocation

vars == <<environ, cargo, files, perm, RUST_VERSION, pc, fault, out, written, run, snap>>

----------------------------------------------------------------------------
(* Bounds of the model *)

MaxMembers == 3   \* longest pre-existing workspace member list
MaxLines == 2     \* most lines in a text file
MaxRuns == 2      \* invocations of the script in a row

----------------------------------------------------------------------------
(* Characters and the literals of the script *)

LF == "\n"
CR == "\r"

\* str.strip() with no argument strips whitespace
IsSpace(c) == c \in {" ", "\t", LF, CR, "\f"}

\* characters in increasing code point order (Python compares str by code point)
CodePoints ==
    <<"\t", LF, "\f", CR, " ", "\"", "#", "-", ".", "/",
      "0", "1", "2", "3", "4", "5", "6", "7", "8", "9", ":", "=",
      "A", "B", "D", "F", "M", "N", "O", "R", "S", "U", "[", "]", "_",
      "a", "b", "c", "d", "e", "f", "g", "h", "i", "j", "k", "l", "m",
      "n", "o", "p", "q", "r", "s", "t", "u", "v", "w", "x", "y", "z">>

ord(c) == CHOOSE i \in DOMAIN CodePoints : CodePoints[i] = c

CUSTOM_PLUGIN_PATH == <<"c", "u", "s", "t", "o", "m", "-", "p", "l", "u", "g", "i", "n">>
ROUTER_WITH_PLUGIN == <<"c", "u", "s", "t", "o", "m", "-", "p", "l", "u", "g", "i", "n", "/", "r", "o", "u", "t", "e", "r", "-", "w", "i", "t", "h", "-", "p", "l", "u", "g", "i", "n">>
DefaultRustVersion == <<"l", "a", "t", "e", "s", "t">>

CargoToml == "Cargo.toml"
RustToolchain == "rust-toolchain.toml"
ConfigToml == "config.toml"
DockerfileRepo == "Dockerfile.repo"
OptionalFiles == {RustToolchain, ConfigToml, DockerfileRepo}
AllFiles == {CargoToml} \cup OptionalFiles

----------------------------------------------------------------------------
(* Workspace members: lines 13-16 *)

\* str.__lt__: lexicographic comparison by code point
RECURSIVE StrLess(_, _)
StrLess(a, b) ==
    IF a = <<>> THEN b # <<>>
    ELSE IF b = <<>> THEN FALSE
    ELSE IF Head(a) = Head(b) THEN StrLess(Tail(a), Tail(b))
    ELSE ord(Head(a)) < ord(Head(b))

\* set(list)
set(list) == {list[i] : i \in DOMAIN list}

\* sorted(set of str)
RECURSIVE sorted(_)
sorted(S) ==
    IF S = {} THEN <<>>
    ELSE LET m == CHOOSE x \in S : \A y \in S \ {x} : StrLess(x, y)
         IN  <<m>> \o sorted(S \ {m})

\* cargo_data.get("workspace", {}).get("members", [])
GetMembers(doc) ==
    IF doc.hasWorkspace /\ doc.hasMembers THEN doc.members ELSE <<>>

\* faulty variant: the second members.add(...) is left out
NewMembers_MissingNested(doc) ==
    sorted(set(GetMembers(doc)) \cup {CUSTOM_PLUGIN_PATH})

\* faulty variant: the two paths are appended to the list, no set, no sort
NewMembers_Appended(doc) ==
    GetMembers(doc) \o <<CUSTOM_PLUGIN_PATH, ROUTER_WITH_PLUGIN>>

\* members = set(...); members.add(...); members.add(...); sorted(members)
NewMembers(doc) ==
    sorted(set(GetMembers(doc)) \cup {CUSTOM_PLUGIN_PATH} \cup {ROUTER_WITH_PLUGIN})

\* cargo_data["workspace"]["members"] = ... raises KeyError without the table
CanAssignMembers(doc) == doc.hasWorkspace

AssignMembers(doc) ==
    [doc EXCEPT !.hasMembers = TRUE, !.members = NewMembers(doc)]

----------------------------------------------------------------------------
(* Text files: open(), iteration over lines, writelines() *)

\* position of the first occurrence of character c in s, 0 if there is none
Find(s, c) ==
    IF \E i \in DOMAIN s : s[i] = c
    THEN CHOOSE i \in DOMAIN s : s[i] = c /\ \A j \in 1..(i - 1) : s[j] # c
    ELSE 0

\* open(path) decodes with newline=None: "\r\n" and "\r" are read as "\n"
RECURSIVE UniversalNewlines(_)
UniversalNewlines(s) ==
    LET n == Find(s, CR)
    IN  IF n = 0 THEN s
        ELSE SubSeq(s, 1, n - 1) \o <<LF>> \o
             UniversalNewlines(SubSeq(s, (IF n < Len(s) /\ s[n + 1] = LF THEN n + 2 ELSE n + 1), Len(s)))

\* "for line in f": each line keeps its "\n"; the last one may have none
RECURSIVE SplitLines(_)
SplitLines(s) ==
    IF s = <<>> THEN <<>>
    ELSE LET n == Find(s, LF)
         IN  IF n = 0 THEN <<s>>
             ELSE <<SubSeq(s, 1, n)>> \o SplitLines(SubSeq(s, n + 1, Len(s)))

ReadLines(data) == SplitLines(UniversalNewlines(data))

\* os.linesep on the POSIX host
linesep == <<LF>>

\* open(path, "w") encodes with newline=None: "\n" is written as os.linesep
RECURSIVE EncodeNewlines(_)
EncodeNewlines(s) ==
    LET n == Find(s, LF)
    IN  IF n = 0 THEN s
        ELSE SubSeq(s, 1, n - 1) \o linesep \o EncodeNewlines(SubSeq(s, n + 1, Len(s)))

RECURSIVE Concat(_)
Concat(lines) ==
    IF lines = <<>> THEN <<>> ELSE Head(lines) \o Concat(Tail(lines))

\* f.writelines(lines)
WriteLines(lines) == EncodeNewlines(Concat(lines))

\* str.strip()
RECURSIVE LStrip(_)
LStrip(s) ==
    IF s # <<>> /\ IsSpace(Head(s)) THEN LStrip(Tail(s)) ELSE s

RECURSIVE RStrip(_)
RStrip(s) ==
    IF s # <<>> /\ IsSpace(s[Len(s)]) THEN RStrip(SubSeq(s, 1, Len(s) - 1)) ELSE s

strip(s) == RStrip(LStrip(s))

\* str.startswith(prefix)
startswith(s, prefix) ==
    Len(s) >= Len(prefix) /\ SubSeq(s, 1, Len(prefix)) = prefix

----------------------------------------------------------------------------
(* The three line rewrites: lines 27-31, 41-45, 55-61 *)

\* faulty variant: the prefix test is made on the untrimmed line
ToolchainLine_NoStrip(line, version) ==
    IF startswith(line, <<"c", "h", "a", "n", "n", "e", "l">>)
    THEN <<"c", "h", "a", "n", "n", "e", "l", " ", "=", " ", "\"">> \o version \o <<"\"", "\n">>
    ELSE line

ToolchainLine(line, version) ==
    IF startswith(strip(line), <<"c", "h", "a", "n", "n", "e", "l">>)
    THEN <<"c", "h", "a", "n", "n", "e", "l", " ", "=", " ", "\"">> \o version \o <<"\"", "\n">>
    ELSE line

ConfigLine(line, version) ==
    IF startswith(strip(line), <<"r", "u", "s", "t", " ", "=">>)
    THEN <<"r", "u", "s", "t", " ", "=", " ", "\"">> \o version \o <<"\"", "\n">>
    ELSE line

\* faulty variant: the install line is not rewritten
DockerfileLine_NoInstall(line, version) ==
    IF startswith(strip(line), <<"F", "R", "O", "M", " ", "r", "u", "s", "t", ":">>)
    THEN <<"F", "R", "O", "M", " ", "r", "u", "s", "t", ":">> \o version \o <<" ", "a", "s", " ", "b", "u", "i", "l", "d", "\n">>
    ELSE line

\* faulty variant: the replacement lines carry no newline
DockerfileLine_NoNewline(line, version) ==
    IF startswith(strip(line), <<"F", "R", "O", "M", " ", "r", "u", "s", "t", ":">>)
    THEN <<"F", "R", "O", "M", " ", "r", "u", "s", "t", ":">> \o version \o <<" ", "a", "s", " ", "b", "u", "i", "l", "d">>
    ELSE IF startswith(strip(line), <<"R", "U", "N", " ", "c", "a", "r", "g", "o", " ", "i", "n", "s", "t", "a", "l", "l", " ", "-", "-", "p", "a", "t", "h">>)
    THEN <<"R", "U", "N", " ", "c", "a", "r", "g", "o", " ", "i", "n", "s", "t", "a", "l", "l", " ", "-", "-", "p", "a", "t", "h", " ", "c", "u", "s", "t", "o", "m", "-", "p", "l", "u", "g", "i", "n", "/", "r", "o", "u", "t", "e", "r", "-", "w", "i", "t", "h", "-", "p", "l", "u", "g", "i", "n">>
    ELSE line

DockerfileLine(line, version) ==
    IF startswith(strip(line), <<"F", "R", "O", "M", " ", "r", "u", "s", "t", ":">>)
    THEN <<"F", "R", "O", "M", " ", "r", "u", "s", "t", ":">> \o version \o <<" ", "a", "s", " ", "b", "u", "i", "l", "d", "\n">>
    ELSE IF startswith(strip(line), <<"R", "U", "N", " ", "c", "a", "r", "g", "o", " ", "i", "n", "s", "t", "a", "l", "l", " ", "-", "-", "p", "a", "t", "h">>)
    THEN <<"R", "U", "N", " ", "c", "a", "r", "g", "o", " ", "i", "n", "s", "t", "a", "l", "l", " ", "-", "-", "p", "a", "t", "h", " ", "c", "u", "s", "t", "o", "m", "-", "p", "l", "u", "g", "i", "n", "/", "r", "o", "u", "t", "e", "r", "-", "w", "i", "t", "h", "-", "p", "l", "u", "g", "i", "n", "\n">>
    ELSE line

PatchLine(f, line, version) ==
    CASE f = RustToolchain -> ToolchainLine(line, version)
      [] f = ConfigToml -> ConfigLine(line, version)
      [] f = DockerfileRepo -> DockerfileLine(line, version)

\* lines = []; for line in f: lines.append(...)
PatchLines(f, lines, version) ==
    [i \in DOMAIN lines |-> PatchLine(f, lines[i], version)]

\* the content written back for file f with content data
Patched(f, data, version) == WriteLines(PatchLines(f, ReadLines(data), version))

----------------------------------------------------------------------------
(* Initial states: the environment and the files the script may find *)

NoFault == [step |-> "none", error |-> "none"]

\* RUST_VERSION unset, or set to a token
Unset == [set |-> FALSE, value |-> <<>>]
SetTo(v) == [set |-> TRUE, value |-> v]
Tokens == {<<"1", ".", "7", "5">>, <<>>}

\* member paths a manifest may list
MemberPool ==
    {<<"a", "p", "o", "l", "l", "o", "-", "r", "o", "u", "t", "e", "r">>, <<"x", "t", "a", "s", "k">>, <<"c", "u", "s", "t", "o", "m", "-", "p", "l", "u", "g", "i", "n", ".", "b", "a", "k">>,
     CUSTOM_PLUGIN_PATH, ROUTER_WITH_PLUGIN}

RECURSIVE ListsUpTo(_, _)
ListsUpTo(S, n) ==
    IF n = 0 THEN {<<>>}
    ELSE LET shorter == ListsUpTo(S, n - 1)
         IN  shorter \cup {Append(l, x) : l \in {k \in shorter : Len(k) = n - 1}, x \in S}

Doc(hasWorkspace, hasMembers, members) ==
    [hasWorkspace |-> hasWorkspace, hasMembers |-> hasMembers, members |-> members]

Manifest(doc) == [exists |-> TRUE, parses |-> TRUE, doc |-> doc]

EmptyDoc == Doc(FALSE, FALSE, <<>>)
PlainDoc == Doc(TRUE, TRUE, <<<<"x", "t", "a", "s", "k">>, <<"a", "p", "o", "l", "l", "o", "-", "r", "o", "u", "t", "e", "r">>>>)

\* a missing manifest, one that is not TOML, one with no [workspace] table,
\* one whose [workspace] has no members key, and an ordinary one
ManifestKinds ==
    {[exists |-> FALSE, parses |-> FALSE, doc |-> EmptyDoc],
     [exists |-> TRUE, parses |-> FALSE, doc |-> EmptyDoc],
     Manifest(EmptyDoc),
     Manifest(Doc(TRUE, FALSE, <<>>)),
     Manifest(PlainDoc)}

RichManifests ==
    {Manifest(Doc(TRUE, TRUE, l)) : l \in ListsUpTo(MemberPool, MaxMembers)}

\* line terminators found in files
Terminators == {<<LF>>, <<CR, LF>>, <<CR>>}

\* line bodies (without terminator) per file
LinePool(f) ==
    CASE f = RustToolchain ->
            {<<"#", " ", "c", "h", "a", "n", "n", "e", "l">>, <<"c", "h", "a", "n", "n", "e", "l", " ", "=", " ", "\"", "1", ".", "7", "6", "\"">>, <<"\t", "c", "h", "a", "n", "n", "e", "l", "s">>, <<>>}
      [] f = ConfigToml ->
            {<<"r", "u", "s", "t", "=", " ", "\"", "x", "\"">>, <<"r", "u", "s", "t", " ", "=", " ", "\"", "1", ".", "7", "6", "\"">>, <<" ", " ", "r", "u", "s", "t", " ", "=">>, <<>>}
      [] f = DockerfileRepo ->
            {<<"F", "R", "O", "M", " ", "r", "u", "s", "t">>, <<"F", "R", "O", "M", " ", "r", "u", "s", "t", ":", "1", ".", "7", "6", " ", "A", "S", " ", "b">>,
             <<"\t", "R", "U", "N", " ", "c", "a", "r", "g", "o", " ", "i", "n", "s", "t", "a", "l", "l", " ", "-", "-", "p", "a", "t", "h", " ", "x">>, <<>>}

\* texts of at most n terminated lines
RECURSIVE Terminated(_, _)
Terminated(f, n) ==
    IF n = 0 THEN {<<>>}
    ELSE {<<>>} \cup {b \o t \o rest : b \in LinePool(f), t \in Terminators,
                                      rest \in Terminated(f, n - 1)}

\* texts of at most n lines, the last one possibly unterminated
Texts(f, n) ==
    IF n = 0 THEN {<<>>}
    ELSE Terminated(f, n) \cup
         {head \o b : head \in Terminated(f, n - 1), b \in LinePool(f) \ {<<>>}}

Present(data) == [exists |-> TRUE, data |-> data]
Absent == [exists |-> FALSE, data |-> <<>>]

PlainText(f) ==
    CASE f = RustToolchain -> <<"[", "t", "o", "o", "l", "c", "h", "a", "i", "n", "]", "\n", "c", "h", "a", "n", "n", "e", "l", " ", "=", " ", "\"", "1", ".", "7", "6", "\"", "\n">>
      [] f = ConfigToml -> <<"r", "u", "s", "t", " ", "=", " ", "\"", "1", ".", "7", "6", "\"", "\n">>
      [] f = DockerfileRepo -> <<"F", "R", "O", "M", " ", "r", "u", "s", "t", ":", "1", ".", "7", "6", " ", "a", "s", " ", "b", "u", "i", "l", "d", "\n", "R", "U", "N", " ", "c", "a", "r", "g", "o", " ", "i", "n", "s", "t", "a", "l", "l", " ", "-", "-", "p", "a", "t", "h", " ", ".", "\n">>

PlainFiles == [f \in OptionalFiles |-> Present(PlainText(f))]

AllowAll == [unreadable |-> {}, unwritable |-> {}]

\* at most one file is unreadable or unwritable
Perms ==
    {AllowAll}
    \cup {[unreadable |-> {f}, unwritable |-> {}] : f \in AllFiles}
    \cup {[unreadable |-> {}, unwritable |-> {f}] : f \in AllFiles}

\* every member list, ordinary text files
ManifestCases ==
    /\ cargo \in RichManifests
    /\ files = PlainFiles
    /\ perm = AllowAll
    /\ environ = Unset

\* every content of one text file, ordinary manifest
TextCases ==
    /\ cargo = Manifest(PlainDoc)
    /\ \E f \in OptionalFiles : \E data \in Texts(f, MaxLines) :
          files = [PlainFiles EXCEPT ![f] = Present(data)]
    /\ perm = AllowAll
    /\ environ \in {Unset, SetTo(<<"1", ".", "7", "5">>)}

\* every combination of missing, malformed and protected files
FaultCases ==
    /\ cargo \in ManifestKinds
    /\ files \in [OptionalFiles -> {Absent}] \cup
                 {[g \in OptionalFiles |-> IF g \in S THEN Present(PlainText(g)) ELSE Absent] :
                     S \in SUBSET OptionalFiles}
    /\ perm \in Perms
    /\ environ \in {Unset} \cup {SetTo(v) : v \in Tokens}

Init ==
    /\ \/ ManifestCases
       \/ TextCases
       \/ FaultCases
    /\ RUST_VERSION = <<>>
    /\ pc = "start"
    /\ fault = NoFault
    /\ out = <<>>
    /\ written = <<>>
    /\ run = 1
    /\ snap = <<[cargo |-> cargo, files |-> files]>>

----------------------------------------------------------------------------
(* The script *)

\* line 7: RUST_VERSION = os.environ.get("RUST_VERSION", "latest")
Start ==
    /\ pc = "start"
    /\ RUST_VERSION' = IF environ.set THEN environ.value ELSE DefaultRustVersion
    /\ pc' = "manifest"
    /\ UNCHANGED <<environ, cargo, files, perm, fault, out, written, run, snap>>

\* the exception lines 11-19 raise, "none" if they run through
ManifestError ==
    IF ~cargo.exists THEN "FileNotFoundError"
    ELSE IF CargoToml \in perm.unreadable THEN "PermissionError"
    ELSE IF ~cargo.parses THEN "TomlDecodeError"
    ELSE IF ~CanAssignMembers(cargo.doc) THEN "KeyError"
    ELSE IF CargoToml \in perm.unwritable THEN "PermissionError"
    ELSE "none"

\* lines 10-19: load Cargo.toml, add the two members, dump it back
UpdateCargoToml ==
    /\ pc = "manifest"
    /\ IF ManifestError = "none"
       THEN /\ cargo' = [cargo EXCEPT !.doc = AssignMembers(cargo.doc)]
            /\ written' = Append(written, CargoToml)
            /\ pc' = "manifest_print"
            /\ UNCHANGED fault
       ELSE /\ fault' = [step |-> "manifest", error |-> ManifestError]
            /\ pc' = "failed"
            /\ UNCHANGED <<cargo, written>>
    /\ UNCHANGED <<environ, files, perm, RUST_VERSION, out, run, snap>>

\* the confirmation line of each step: fixed text, then the version
Message(step) ==
    CASE step = "manifest" ->
            <<"Added custom-plugin and router-with-plugin to workspace members", <<>>>>
      [] step = "toolchain" ->
            <<"Patched rust-toolchain.toml to use rust:", RUST_VERSION>>
      [] step = "config" ->
            <<"Patched apollo-router/config.toml to use rust:", RUST_VERSION>>
      [] step = "dockerfile" ->
            <<"Patched Dockerfile.repo to use rust:", RUST_VERSION>>

\* print(...) after a step has written its file
Confirm(step, next) ==
    /\ pc = step \o "_print"
    /\ out' = Append(out, Message(step))
    /\ pc' = next
    /\ UNCHANGED <<environ, cargo, files, perm, RUST_VERSION, fault, written, run, snap>>

\* faulty variant: no os.path.exists guard, open() raises on an absent file
PatchFile_NoExistsCheck(step, f, next) ==
    /\ pc = step
    /\ IF ~files[f].exists
       THEN /\ fault' = [step |-> step, error |-> "FileNotFoundError"]
            /\ pc' = "failed"
            /\ UNCHANGED <<files, written>>
       ELSE IF f \in perm.unreadable \cup perm.unwritable
       THEN /\ fault' = [step |-> step, error |-> "PermissionError"]
            /\ pc' = "failed"
            /\ UNCHANGED <<files, written>>
       ELSE /\ files' = [files EXCEPT ![f].data = Patched(f, files[f].data, RUST_VERSION)]
            /\ written' = Append(written, f)
            /\ pc' = step \o "_print"
            /\ UNCHANGED fault
    /\ UNCHANGED <<environ, cargo, perm, RUST_VERSION, out, run, snap>>

\* faulty variant: the error is recorded but the script goes on to the next step
PatchFile_ContinuesAfterError(step, f, next) ==
    /\ pc = step
    /\ IF ~files[f].exists
       THEN /\ pc' = next
            /\ UNCHANGED <<files, written, fault>>
       ELSE IF f \in perm.unreadable \cup perm.unwritable
       THEN /\ fault' = [step |-> step, error |-> "PermissionError"]
            /\ pc' = next
            /\ UNCHANGED <<files, written>>
       ELSE /\ files' = [files EXCEPT ![f].data = Patched(f, files[f].data, RUST_VERSION)]
            /\ written' = Append(written, f)
            /\ pc' = step \o "_print"
            /\ UNCHANGED fault
    /\ UNCHANGED <<environ, cargo, perm, RUST_VERSION, out, run, snap>>

\* faulty variant: the print is outside the if block
PatchFile_ConfirmsUnconditionally(step, f, next) ==
    /\ pc = step
    /\ IF ~files[f].exists
       THEN /\ pc' = step \o "_print"
            /\ UNCHANGED <<files, written, fault>>
       ELSE IF f \in perm.unreadable \cup perm.unwritable
       THEN /\ fault' = [step |-> step, error |-> "PermissionError"]
            /\ pc' = "failed"
            /\ UNCHANGED <<files, written>>
       ELSE /\ files' = [files EXCEPT ![f].data = Patched(f, files[f].data, RUST_VERSION)]
            /\ written' = Append(written, f)
            /\ pc' = step \o "_print"
            /\ UNCHANGED fault
    /\ UNCHANGED <<environ, cargo, perm, RUST_VERSION, out, run, snap>>

\* if os.path.exists(path): read the lines, rewrite them, write them back
PatchFile(step, f, next) ==
    /\ pc = step
    /\ IF ~files[f].exists
       THEN /\ pc' = next
            /\ UNCHANGED <<files, written, fault>>
       ELSE IF f \in perm.unreadable \cup perm.unwritable
       THEN /\ fault' = [step |-> step, error |-> "PermissionError"]
            /\ pc' = "failed"
            /\ UNCHANGED <<files, written>>
       ELSE /\ files' = [files EXCEPT ![f].data = Patched(f, files[f].data, RUST_VERSION)]
            /\ written' = Append(written, f)
            /\ pc' = step \o "_print"
            /\ UNCHANGED fault
    /\ UNCHANGED <<environ, cargo, perm, RUST_VERSION, out, run, snap>>

\* line 20
PrintCargoToml == Confirm("manifest", "toolchain")

\* lines 23-33
PatchRustToolchain == PatchFile("toolchain", RustToolchain, "config")

\* line 34
PrintRustToolchain == Confirm("toolchain", "config")

\* lines 37-47
PatchConfigToml == PatchFile("config", ConfigToml, "dockerfile")

\* line 48
PrintConfigToml == Confirm("config", "dockerfile")

\* lines 51-63
PatchDockerfile == PatchFile("dockerfile", DockerfileRepo, "done")

\* line 64
PrintDockerfile == Confirm("dockerfile", "done")

\* the script is invoked again on the files it left behind, same environment
Rerun ==
    /\ pc = "done"
    /\ run < MaxRuns
    /\ run' = run + 1
    /\ snap' = Append(snap, [cargo |-> cargo, files |-> files])
    /\ RUST_VERSION' = <<>>
    /\ pc' = "start"
    /\ out' = <<>>
    /\ written' = <<>>
    /\ UNCHANGED <<environ, cargo, files, perm, fault>>

Next ==
    \/ Start
    \/ UpdateCargoToml
    \/ PrintCargoToml
    \/ PatchRustToolchain
    \/ PrintRustToolchain
    \/ PatchConfigToml
    \/ PrintConfigToml
    \/ PatchDockerfile
    \/ PrintDockerfile
    \/ Rerun

Spec == Init /\ [][Next]_vars

----------------------------------------------------------------------------
(* Properties *)

\* the file system as the current invocation found it
Before == snap[run]

HasWritten(f) == \E i \in DOMAIN written : written[i] = f

\* the version token the environment supplies
SuppliedVersion == IF environ.set THEN environ.value ELSE <<"l", "a", "t", "e", "s", "t">>

\* the member pool in code point order: "-" < "." < "/" and a prefix sorts first
PoolInOrder ==
    <<<<"a", "p", "o", "l", "l", "o", "-", "r", "o", "u", "t", "e", "r">>, <<"c", "u", "s", "t", "o", "m", "-", "p", "l", "u", "g", "i", "n">>, <<"c", "u", "s", "t", "o", "m", "-", "p", "l", "u", "g", "i", "n", ".", "b", "a", "k">>,
      <<"c", "u", "s", "t", "o", "m", "-", "p", "l", "u", "g", "i", "n", "/", "r", "o", "u", "t", "e", "r", "-", "w", "i", "t", "h", "-", "p", "l", "u", "g", "i", "n">>, <<"x", "t", "a", "s", "k">>>>

Rank(m) == CHOOSE i \in DOMAIN PoolInOrder : PoolInOrder[i] = m

Occurrences(l, x) == Cardinality({i \in DOMAIN l : l[i] = x})

TrimmedStartsWith(line, prefix) == startswith(strip(line), prefix)

\* C1: once the manifest step has written a manifest that had a members list,
\* the list is sorted and duplicate-free, holds "custom-plugin" and
\* "custom-plugin/router-with-plugin" exactly once each, and its elements are
\* the previous members plus those two paths.
C1_MembersSortedUniqueComplete ==
    (HasWritten(CargoToml) /\ Before.cargo.doc.hasMembers) =>
        LET old == Before.cargo.doc.members
            new == cargo.doc.members
        IN  /\ cargo.doc.hasWorkspace /\ cargo.doc.hasMembers
            /\ \A i \in 1..(Len(new) - 1) : Rank(new[i]) < Rank(new[i + 1])
            /\ Occurrences(new, <<"c", "u", "s", "t", "o", "m", "-", "p", "l", "u", "g", "i", "n">>) = 1
            /\ Occurrences(new, <<"c", "u", "s", "t", "o", "m", "-", "p", "l", "u", "g", "i", "n", "/", "r", "o", "u", "t", "e", "r", "-", "w", "i", "t", "h", "-", "p", "l", "u", "g", "i", "n">>) = 1
            /\ {new[i] : i \in DOMAIN new} =
                   {old[i] : i \in DOMAIN old}
                       \cup {<<"c", "u", "s", "t", "o", "m", "-", "p", "l", "u", "g", "i", "n">>, <<"c", "u", "s", "t", "o", "m", "-", "p", "l", "u", "g", "i", "n", "/", "r", "o", "u", "t", "e", "r", "-", "w", "i", "t", "h", "-", "p", "l", "u", "g", "i", "n">>}

\* a first run has rewritten a list with a duplicate, out of order, missing both paths
C1_Witness ==
    /\ run = 1
    /\ HasWritten(CargoToml)
    /\ LET old == Before.cargo.doc.members
       IN  /\ Len(old) = 3
           /\ old[1] = old[3]
           /\ Rank(old[2]) < Rank(old[1])
           /\ \A i \in DOMAIN old : old[i] \notin {CUSTOM_PLUGIN_PATH, ROUTER_WITH_PLUGIN}
    /\ Len(cargo.doc.members) = 4

\* C2: in a second (or later) run on a manifest the first run succeeded on, the
\* member sequence written is the one the previous run left.
C2_ManifestIdempotent ==
    (run >= 2 /\ HasWritten(CargoToml)) =>
        /\ cargo.doc.members = Before.cargo.doc.members
        /\ cargo.doc.members = snap[2].cargo.doc.members

\* the second run has rewritten a manifest that the first run had changed
C2_Witness ==
    /\ run = 2
    /\ pc = "done"
    /\ HasWritten(CargoToml)
    /\ snap[1].cargo.doc.members # snap[2].cargo.doc.members
    /\ Len(snap[1].cargo.doc.members) = 3
    /\ snap[1].cargo.doc.members[1] = snap[1].cargo.doc.members[2]

\* a file's content split at "\n", "\r\n" and "\r", each line keeping its own
\* terminator bytes
LineEnd(s) ==
    IF \E i \in DOMAIN s : s[i] \in {LF, CR}
    THEN LET i == CHOOSE k \in DOMAIN s :
                      s[k] \in {LF, CR} /\ \A j \in 1..(k - 1) : s[j] \notin {LF, CR}
         IN  IF s[i] = CR /\ i < Len(s) /\ s[i + 1] = LF THEN i + 1 ELSE i
    ELSE Len(s)

RECURSIVE RawLines(_)
RawLines(s) ==
    IF s = <<>> THEN <<>>
    ELSE <<SubSeq(s, 1, LineEnd(s))>> \o RawLines(SubSeq(s, LineEnd(s) + 1, Len(s)))

MatchesPrefix(f, line) ==
    CASE f = RustToolchain -> TrimmedStartsWith(line, <<"c", "h", "a", "n", "n", "e", "l">>)
      [] f = ConfigToml -> TrimmedStartsWith(line, <<"r", "u", "s", "t", " ", "=">>)
      [] f = DockerfileRepo ->
            \/ TrimmedStartsWith(line, <<"F", "R", "O", "M", " ", "r", "u", "s", "t", ":">>)
            \/ TrimmedStartsWith(line, <<"R", "U", "N", " ", "c", "a", "r", "g", "o", " ", "i", "n", "s", "t", "a", "l", "l", " ", "-", "-", "p", "a", "t", "h">>)

\* C3: once a text file has been written back it has as many lines as before,
\* and every line that does not match the file's prefix predicate is
\* byte-identical to the line at the same position before.
C3_OtherLinesByteIdentical ==
    \A f \in OptionalFiles :
        HasWritten(f) =>
            LET old == RawLines(Before.files[f].data)
                new == RawLines(files[f].data)
            IN  /\ Len(new) = Len(old)
                /\ \A i \in DOMAIN old :
                       ~MatchesPrefix(f, old[i]) => new[i] = old[i]

\* C4: once rust-toolchain.toml (config.toml) has been written back, every
\* line whose trimmed content started with `channel` (`rust =`) is exactly
\* `channel = "<version>"` (`rust = "<version>"`) followed by a newline, with
\* the environment's token or "latest".
C4_ChannelAndRustLines ==
    /\ HasWritten(RustToolchain) =>
           LET old == ReadLines(Before.files[RustToolchain].data)
               new == ReadLines(files[RustToolchain].data)
           IN  \A i \in DOMAIN old :
                   TrimmedStartsWith(old[i], <<"c", "h", "a", "n", "n", "e", "l">>) =>
                       /\ i \in DOMAIN new
                       /\ new[i] = <<"c", "h", "a", "n", "n", "e", "l", " ", "=", " ", "\"">> \o SuppliedVersion \o <<"\"", "\n">>
    /\ HasWritten(ConfigToml) =>
           LET old == ReadLines(Before.files[ConfigToml].data)
               new == ReadLines(files[ConfigToml].data)
           IN  \A i \in DOMAIN old :
                   TrimmedStartsWith(old[i], <<"r", "u", "s", "t", " ", "=">>) =>
                       /\ i \in DOMAIN new
                       /\ new[i] = <<"r", "u", "s", "t", " ", "=", " ", "\"">> \o SuppliedVersion \o <<"\"", "\n">>

\* both files written in a first run with a supplied token; the toolchain file
\* had an indented `channels` line after a non-matching line
C4_Witness ==
    /\ run = 1
    /\ environ.set
    /\ HasWritten(RustToolchain) /\ HasWritten(ConfigToml)
    /\ LET old == ReadLines(Before.files[RustToolchain].data)
       IN  /\ Len(old) = 2
           /\ ~TrimmedStartsWith(old[1], <<"c", "h", "a", "n", "n", "e", "l">>)
           /\ old[2] = <<"\t", "c", "h", "a", "n", "n", "e", "l", "s", "\n">>
    /\ \E i \in DOMAIN ReadLines(Before.files[ConfigToml].data) :
           TrimmedStartsWith(ReadLines(Before.files[ConfigToml].data)[i], <<"r", "u", "s", "t", " ", "=">>)

\* C5: once Dockerfile.repo has been written back, every line whose trimmed
\* content started with `FROM rust:` is exactly `FROM rust:<version> as build`
\* and every line whose trimmed content started with `RUN cargo install --path`
\* is exactly `RUN cargo install --path custom-plugin/router-with-plugin`,
\* whatever the original line and whatever the version.
C5_DockerfileLines ==
    HasWritten(DockerfileRepo) =>
        LET old == ReadLines(Before.files[DockerfileRepo].data)
            new == ReadLines(files[DockerfileRepo].data)
        IN  \A i \in DOMAIN old :
                /\ TrimmedStartsWith(old[i], <<"F", "R", "O", "M", " ", "r", "u", "s", "t", ":">>) =>
                       /\ i \in DOMAIN new
                       /\ new[i] = <<"F", "R", "O", "M", " ", "r", "u", "s", "t", ":">> \o SuppliedVersion \o <<" ", "a", "s", " ", "b", "u", "i", "l", "d", "\n">>
                /\ TrimmedStartsWith(old[i], <<"R", "U", "N", " ", "c", "a", "r", "g", "o", " ", "i", "n", "s", "t", "a", "l", "l", " ", "-", "-", "p", "a", "t", "h">>) =>
                       /\ i \in DOMAIN new
                       /\ new[i] = <<"R", "U", "N", " ", "c", "a", "r", "g", "o", " ", "i", "n", "s", "t", "a", "l", "l", " ", "-", "-", "p", "a", "t", "h", " ", "c", "u", "s", "t", "o", "m", "-", "p", "l", "u", "g", "i", "n", "/", "r", "o", "u", "t", "e", "r", "-", "w", "i", "t", "h", "-", "p", "l", "u", "g", "i", "n", "\n">>

\* a first run with a supplied token has rewritten a build file with a FROM
\* line carrying another tag and alias and an indented install line
C5_Witness ==
    /\ run = 1
    /\ environ.set
    /\ HasWritten(DockerfileRepo)
    /\ LET old == ReadLines(Before.files[DockerfileRepo].data)
       IN  /\ Len(old) = 2
           /\ old[1] = <<"F", "R", "O", "M", " ", "r", "u", "s", "t", ":", "1", ".", "7", "6", " ", "A", "S", " ", "b", "\n">>
           /\ old[2] = <<"\t", "R", "U", "N", " ", "c", "a", "r", "g", "o", " ", "i", "n", "s", "t", "a", "l", "l", " ", "-", "-", "p", "a", "t", "h", " ", "x">>

StepNames == <<"manifest", "toolchain", "config", "dockerfile">>

StepFile(k) == <<CargoToml, RustToolchain, ConfigToml, DockerfileRepo>>[k]

StepOf(f) == CHOOSE k \in DOMAIN StepNames : StepFile(k) = f

ManifestUsable ==
    /\ Before.cargo.exists /\ Before.cargo.parses /\ Before.cargo.doc.hasWorkspace
    /\ CargoToml \notin perm.unreadable \cup perm.unwritable

\* C6: an optional file that is absent stays absent, is never written and
\* never ends the run; with a usable manifest and no protected file the run
\* does not fail whichever optional files are absent; and at the end every
\* optional file that was present holds the patch of its own content.
C6_AbsentOptionalFilesSkipped ==
    /\ \A f \in OptionalFiles :
           ~Before.files[f].exists =>
               /\ ~files[f].exists
               /\ ~HasWritten(f)
               /\ fault.step # StepNames[StepOf(f)]
    /\ (ManifestUsable /\ perm.unreadable \cup perm.unwritable = {}) => pc # "failed"
    /\ pc = "done" =>
           \A f \in OptionalFiles :
               Before.files[f].exists =>
                   /\ files[f].exists
                   /\ HasWritten(f)
                   /\ files[f].data = Patched(f, Before.files[f].data, SuppliedVersion)

\* a run has completed with the toolchain and build files absent and the
\* config file patched
C6_Witness ==
    /\ pc = "done"
    /\ ~Before.files[RustToolchain].exists
    /\ ~Before.files[DockerfileRepo].exists
    /\ Before.files[ConfigToml].exists
    /\ files[ConfigToml].data # Before.files[ConfigToml].data
    /\ written = <<CargoToml, ConfigToml>>

\* C7: on a parseable, readable and writable manifest without a members field
\* the manifest step succeeds and writes exactly the two fixed paths in order.
C7_AbsentMembersTreatedAsEmpty ==
    (/\ Before.cargo.exists /\ Before.cargo.parses
     /\ ~Before.cargo.doc.hasMembers
     /\ CargoToml \notin perm.unreadable \cup perm.unwritable
     /\ pc \notin {"start", "manifest"}) =>
        /\ fault.step # "manifest"
        /\ cargo.doc.hasMembers
        /\ cargo.doc.members =
               <<<<"c", "u", "s", "t", "o", "m", "-", "p", "l", "u", "g", "i", "n">>, <<"c", "u", "s", "t", "o", "m", "-", "p", "l", "u", "g", "i", "n", "/", "r", "o", "u", "t", "e", "r", "-", "w", "i", "t", "h", "-", "p", "l", "u", "g", "i", "n">>>>

\* the content step k leaves in its file
StepDone(k) ==
    IF k = 1
    THEN cargo = [Before.cargo EXCEPT !.doc = AssignMembers(Before.cargo.doc)]
    ELSE files[StepFile(k)] =
             IF Before.files[StepFile(k)].exists
             THEN Present(Patched(StepFile(k), Before.files[StepFile(k)].data, SuppliedVersion))
             ELSE Absent

StepUntouched(k) ==
    IF k = 1 THEN cargo = Before.cargo
    ELSE files[StepFile(k)] = Before.files[StepFile(k)]

\* C8: files are written in step order, an uncaught error halts the script,
\* and in a run that failed at step k the files of the steps before k hold
\* their patched content and the files of the steps after k are untouched.
C8_HaltAtFirstFailure ==
    /\ \A i, j \in DOMAIN written : i < j => StepOf(written[i]) < StepOf(written[j])
    /\ (fault # NoFault) <=> (pc = "failed")
    /\ fault # NoFault =>
           \E k \in DOMAIN StepNames :
               /\ fault.step = StepNames[k]
               /\ \A j \in 1..(k - 1) : StepDone(j)
               /\ \A j \in (k + 1)..Len(StepNames) : StepUntouched(j)

\* a run that patched the manifest and the toolchain file, then failed on the
\* config file, leaving the build file alone
C8_Witness ==
    /\ pc = "failed"
    /\ fault.step = "config"
    /\ written = <<CargoToml, RustToolchain>>
    /\ files[RustToolchain] # Before.files[RustToolchain]
    /\ Before.files[DockerfileRepo].exists

ConfirmationOf(f) ==
    CASE f = CargoToml ->
            <<"Added custom-plugin and router-with-plugin to workspace members", <<>>>>
      [] f = RustToolchain ->
            <<"Patched rust-toolchain.toml to use rust:", SuppliedVersion>>
      [] f = ConfigToml ->
            <<"Patched apollo-router/config.toml to use rust:", SuppliedVersion>>
      [] f = DockerfileRepo ->
            <<"Patched Dockerfile.repo to use rust:", SuppliedVersion>>

\* C9: the confirmation lines printed are those of the files written, in the
\* same order; a line is printed only after its file is written, so the output
\* is at most one line behind, and it is complete when the run ends or the
\* next step begins.
C9_OneConfirmationPerWrittenFile ==
    /\ Len(out) <= Len(written)
    /\ Len(written) <= Len(out) + 1
    /\ \A i \in DOMAIN out : out[i] = ConfirmationOf(written[i])
    /\ (Len(out) < Len(written)) <=>
           pc \in {"manifest_print", "toolchain_print", "config_print", "dockerfile_print"}
    /\ pc \in {"done", "failed"} => Len(out) = Len(written)

\* a completed run that skipped the absent config file printed three lines
C9_Witness ==
    /\ pc = "done"
    /\ ~Before.files[ConfigToml].exists
    /\ Len(out) = 3
    /\ written = <<CargoToml, RustToolchain, DockerfileRepo>>
    /\ environ.set

\* C10: in a second (or later) run with the same token, each of the three text
\* files stays byte-identical to what the previous run left.
C10_TextPatchIdempotent ==
    run >= 2 => \A f \in OptionalFiles : files[f] = Before.files[f]

\* a second run has rewritten a build file that the first run had changed
\* from CRLF lines with another tag and install path
C10_Witness ==
    /\ run = 2
    /\ pc = "done"
    /\ HasWritten(DockerfileRepo)
    /\ snap[1].files[DockerfileRepo].data =
           <<"F", "R", "O", "M", " ", "r", "u", "s", "t", ":", "1", ".", "7", "6", " ", "A", "S", " ", "b", "\r", "\n", "\t", "R", "U", "N", " ", "c", "a", "r", "g", "o", " ", "i", "n", "s", "t", "a", "l", "l", " ", "-", "-", "p", "a", "t", "h", " ", "x", "\r", "\n">>
    /\ files[DockerfileRepo].data # snap[1].files[DockerfileRepo].data
====
